---- MODULE Spec2Model ----
(***************************************************************************)
(* Elite 100 Visualizer (src/app.py): the time codec, the dropdown "ALL"   *)
(* reducers and the update_visualization pipeline (filter, brand layout,   *)
(* traces, axis ticks, summary).                                           *)
(*                                                                         *)
(* Representation.  A Python str that the code inspects character by       *)
(* character (time text, search text, Model, ChassisCode) is a sequence of *)
(* one-character strings.  A str the code only compares as a whole (Brand, *)
(* EngineType, Drivetrain, the sentinel 'ALL') is a TLA+ string.  A float  *)
(* number of seconds is an integer number of milliseconds; NaN is -1.      *)
(***************************************************************************)
EXTENDS Integers, Sequences, FiniteSets, TLC

VARIABLES
    \* time codec / data preparation (lines 69-71)
    time_text, time_sec, time_duration, codec_pc,
    \* the two multi-select dropdowns (lines 110-133, 180-218)
    brand_value, brand_prev, brand_raw,
    drivetrain_value, drivetrain_prev, drivetrain_raw,
    \* the Record Store and the build's tie order of Series.sort_values
    df_plot, sort_ties,
    \* the column 'Brand_X_simple' of the Record Store itself (<<>>: no such
    \* column), which line 284 would write if filtered_df were df_plot
    df_plot_Brand_X_simple,
    \* update_visualization: its arguments and what it computes
    viz_called, selected_brands, selected_drivetrain, selected_engine,
    model_chassis_search,
    filtered_df, brand_order_simple, max_brand_width, responsive_width,
    traces, tick_values, total_vehicles, total_brands, fastest_idx,
    \* history: for every selection invoked so far, in the order of the first
    \* invocations, what update_visualization returned the first time
    first_results

codec_vars == <<time_text, time_sec, time_duration, codec_pc>>
dropdown_vars == <<brand_value, brand_prev, brand_raw,
                   drivetrain_value, drivetrain_prev, drivetrain_raw>>
store_vars == <<df_plot, sort_ties, df_plot_Brand_X_simple>>
viz_vars == <<viz_called, selected_brands, selected_drivetrain, selected_engine,
              model_chassis_search, filtered_df, brand_order_simple,
              max_brand_width, responsive_width, traces, tick_values,
              total_vehicles, total_brands, fastest_idx, first_results>>
vars == <<codec_vars, dropdown_vars, store_vars, viz_vars>>

(***************************************************************************)
(* Python values                                                           *)
(***************************************************************************)

\* np.nan as a number of milliseconds
NaN == -1

\* A text argument: None/NaN, or a str given as its characters.
NoText == [isna |-> TRUE, chars |-> <<>>]
Text(s) == [isna |-> FALSE, chars |-> s]

\* A dropdown value: None, a str, or a list of option values.
PyNone == [kind |-> "none", s |-> "", items |-> <<>>]
PyStr(x) == [kind |-> "str", s |-> x, items |-> <<>>]
PyList(xs) == [kind |-> "list", s |-> "", items |-> xs]

Range(f) == {f[i] : i \in DOMAIN f}

Min(a, b) == IF a <= b THEN a ELSE b
Max(a, b) == IF a >= b THEN a ELSE b

MinOfSet(S) == CHOOSE x \in S : \A y \in S : x <= y
MaxOfSet(S) == CHOOSE x \in S : \A y \in S : x >= y

\* the sequences over S of length 0..n
SeqsUpTo(S, n) == UNION {[1..k -> S] : k \in 0..n}

\* n copies of the character c
Rep(c, n) == [i \in 1..n |-> c]

\* the elements of xs that are in S, in the order of xs
RECURSIVE Keep(_, _)
Keep(xs, S) ==
    IF xs = <<>> THEN <<>>
    ELSE (IF Head(xs) \in S THEN <<Head(xs)>> ELSE <<>>) \o Keep(Tail(xs), S)

(***************************************************************************)
(* str methods used by the code                                            *)
(***************************************************************************)

IsSpace(c) == c = " "
IsDigit(c) == c \in {"0", "1", "2", "3", "4", "5", "6", "7", "8", "9"}

DigitVal(c) ==
    CASE c = "0" -> 0 [] c = "1" -> 1 [] c = "2" -> 2 [] c = "3" -> 3
      [] c = "4" -> 4 [] c = "5" -> 5 [] c = "6" -> 6 [] c = "7" -> 7
      [] c = "8" -> 8 [] c = "9" -> 9

DigitChar(d) == <<"0", "1", "2", "3", "4", "5", "6", "7", "8", "9">>[d + 1]

\* str.lower() of one character (the letters the model's texts use)
LowerChar(c) ==
    CASE c = "C" -> "c" [] c = "R" -> "r" [] c = "K" -> "k" [] c = "X" -> "x"
      [] OTHER -> c

\* str.lower()
str_lower(s) == [i \in 1..Len(s) |-> LowerChar(s[i])]

\* str.lstrip() / str.rstrip() / str.strip()
RECURSIVE str_lstrip(_)
str_lstrip(s) ==
    IF s # <<>> /\ IsSpace(Head(s)) THEN str_lstrip(Tail(s)) ELSE s

RECURSIVE str_rstrip(_)
str_rstrip(s) ==
    IF s # <<>> /\ IsSpace(s[Len(s)])
    THEN str_rstrip(SubSeq(s, 1, Len(s) - 1)) ELSE s

str_strip(s) == str_rstrip(str_lstrip(s))

\* str.split(sep) for a one-character sep: every sep cuts, empty pieces are kept
RECURSIVE SplitAcc(_, _, _)
SplitAcc(s, sep, cur) ==
    IF s = <<>> THEN <<cur>>
    ELSE IF Head(s) = sep THEN <<cur>> \o SplitAcc(Tail(s), sep, <<>>)
    ELSE SplitAcc(Tail(s), sep, Append(cur, Head(s)))

str_split(s, sep) == SplitAcc(s, sep, <<>>)

\* the elements of a set of integers in ascending order
RECURSIVE SortedSeqOfSet(_)
SortedSeqOfSet(S) ==
    IF S = {} THEN <<>>
    ELSE LET m == MinOfSet(S) IN <<m>> \o SortedSeqOfSet(S \ {m})

\* str.split(): the maximal runs of non-whitespace, left to right
str_split_ws(s) ==
    LET starts == {i \in 1..Len(s) : ~IsSpace(s[i]) /\ (i = 1 \/ IsSpace(s[i - 1]))}
        start_seq == SortedSeqOfSet(starts)
        EndOf(i) == MinOfSet({j \in i..Len(s) : j = Len(s) \/ IsSpace(s[j + 1])})
    IN  [k \in DOMAIN start_seq |-> SubSeq(s, start_seq[k], EndOf(start_seq[k]))]

(***************************************************************************)
(* Time codec (lines 34-63)                                                *)
(***************************************************************************)

\* int(digits)
RECURSIVE DigitsToInt(_)
DigitsToInt(ds) ==
    IF ds = <<>> THEN 0
    ELSE DigitsToInt(SubSeq(ds, 1, Len(ds) - 1)) * 10 + DigitVal(ds[Len(ds)])

AllDigits(s) == \A i \in 1..Len(s) : IsDigit(s[i])

\* the fractional digits d1 d2 d3 ... as milliseconds (three digits are exact)
FracToMillis(fs) ==
    (IF Len(fs) >= 1 THEN DigitVal(fs[1]) * 100 ELSE 0)
    + (IF Len(fs) >= 2 THEN DigitVal(fs[2]) * 10 ELSE 0)
    + (IF Len(fs) >= 3 THEN DigitVal(fs[3]) ELSE 0)

\* float("<digits>[.<digits>]") in milliseconds
FloatMillis(tok) ==
    LET dot == {i \in 1..Len(tok) : tok[i] = "."}
    IN  IF dot = {} THEN DigitsToInt(tok) * 1000
        ELSE LET p == MinOfSet(dot)
             IN  DigitsToInt(SubSeq(tok, 1, p - 1)) * 1000
                 + FracToMillis(SubSeq(tok, p + 1, Len(tok)))

\* \d{1,2}(?:\.\d+)? matches the whole of t
IsSecPart(t) ==
    LET dot == {i \in 1..Len(t) : t[i] = "."}
    IN  IF dot = {} THEN Len(t) \in 1..2 /\ AllDigits(t)
        ELSE LET p == MinOfSet(dot)
             IN  /\ p - 1 \in 1..2
                 /\ AllDigits(SubSeq(t, 1, p - 1))
                 /\ Len(t) > p
                 /\ AllDigits(SubSeq(t, p + 1, Len(t)))

\* re.match(r'^(?:(\d+):)?(\d{1,2}(?:\.\d+)?)$', s): the groups, or no match
TimeMatch(s) ==
    LET colon == {i \in 1..Len(s) : s[i] = ":"}
    IN  IF colon = {}
        THEN [ok |-> IsSecPart(s), has_min |-> FALSE, min_part |-> <<>>, sec_part |-> s]
        ELSE LET p == MinOfSet(colon)
                 mp == SubSeq(s, 1, p - 1)
                 sp == SubSeq(s, p + 1, Len(s))
             IN  [ok |-> p > 1 /\ AllDigits(mp) /\ IsSecPart(sp),
                  has_min |-> TRUE, min_part |-> mp, sec_part |-> sp]

\* re.findall(r'\d+\.?\d*', s): scan left to right, greedy, non-overlapping
RECURSIVE TakeDigits(_)
TakeDigits(s) ==
    IF s # <<>> /\ IsDigit(Head(s)) THEN <<Head(s)>> \o TakeDigits(Tail(s)) ELSE <<>>

RECURSIVE FindNums(_)
FindNums(s) ==
    IF s = <<>> THEN <<>>
    ELSE IF ~IsDigit(Head(s)) THEN FindNums(Tail(s))
    ELSE LET a == TakeDigits(s)
             r1 == SubSeq(s, Len(a) + 1, Len(s))
             dot == IF r1 # <<>> /\ Head(r1) = "." THEN <<".">> ELSE <<>>
             r2 == SubSeq(r1, Len(dot) + 1, Len(r1))
             b == TakeDigits(r2)
             r3 == SubSeq(r2, Len(b) + 1, Len(r2))
         IN  <<a \o dot \o b>> \o FindNums(r3)

\* parse_time_to_seconds whose minutes are not multiplied by 60
parse_time_no_minutes(t) ==
    IF t.isna THEN NaN
    ELSE LET s == str_strip(t.chars)
             m == TimeMatch(s)
         IN  IF m.ok THEN FloatMillis(m.sec_part)
             ELSE NaN

parse_time_to_seconds(t) ==
    IF t.isna THEN NaN
    ELSE LET s == str_strip(t.chars)
             m == TimeMatch(s)
             nums == FindNums(s)
         IN  IF m.ok
             THEN LET minutes == IF m.has_min THEN DigitsToInt(m.min_part) ELSE 0
                      seconds == FloatMillis(m.sec_part)
                  IN  minutes * 60000 + seconds
             ELSE IF Len(nums) = 1 THEN FloatMillis(nums[1])
             ELSE NaN

\* the decimal digits of n >= 0
RECURSIVE IntToDigits(_)
IntToDigits(n) ==
    IF n < 10 THEN <<DigitChar(n)>>
    ELSE IntToDigits(n \div 10) \o <<DigitChar(n % 10)>>

\* zero padding on the left to a width of w
ZeroPad(ds, w) == IF Len(ds) >= w THEN ds ELSE Rep("0", w - Len(ds)) \o ds

\* f'{minutes:02d}'
FormatMinutes(minutes) == ZeroPad(IntToDigits(minutes), 2)

\* f'{x:06.3f}' and f'{x:04.1f}' of x given in milliseconds, x >= 0
FormatSec3(ms) ==
    ZeroPad(IntToDigits(ms \div 1000) \o <<".">> \o ZeroPad(IntToDigits(ms % 1000), 3), 6)

\* one decimal: round half to even on the tenths
FormatSec1(ms) ==
    LET q == ms \div 100
        r == ms % 100
        tenths == IF r > 50 \/ (r = 50 /\ q % 2 = 1) THEN q + 1 ELSE q
    IN  ZeroPad(IntToDigits(tenths \div 10) \o <<".">> \o IntToDigits(tenths % 10), 4)

\* seconds_to_duration that prints the whole number of seconds, not sec % 60
seconds_to_duration_no_mod(sec, decimals) ==
    IF sec = NaN THEN <<>>
    ELSE FormatMinutes(sec \div 60000) \o <<":">> \o FormatSec3(sec)

seconds_to_duration(sec, decimals) ==
    IF sec = NaN THEN <<>>
    ELSE LET minutes == sec \div 60000
             remaining_sec == sec % 60000
         IN  IF decimals = 1
             THEN FormatMinutes(minutes) \o <<":">> \o FormatSec1(remaining_sec)
             ELSE FormatMinutes(minutes) \o <<":">> \o FormatSec3(remaining_sec)

(***************************************************************************)
(* Data preparation (lines 69-71): one Time cell is parsed, then formatted *)
(***************************************************************************)

\* df['Time_sec'] = df['Time'].apply(parse_time_to_seconds)
ApplyParseTime ==
    /\ codec_pc = "loaded"
    /\ time_sec' = parse_time_to_seconds(time_text)
    /\ codec_pc' = "parsed"
    /\ UNCHANGED <<time_text, time_duration, dropdown_vars, store_vars, viz_vars>>

\* df['Time_duration'] = df['Time_sec'].apply(seconds_to_duration)
ApplyFormatTime ==
    /\ codec_pc = "parsed"
    /\ time_duration' = seconds_to_duration(time_sec, 3)
    /\ codec_pc' = "formatted"
    /\ UNCHANGED <<time_text, time_sec, dropdown_vars, store_vars, viz_vars>>

(***************************************************************************)
(* Record Store (lines 73-80)                                              *)
(***************************************************************************)

\* The rows a store is made of.  Time_sec is in milliseconds.
Pool ==
    << [Brand |-> "BrandA", Model |-> Rep("x", 20), ChassisCode |-> <<"k">>,
        Time_sec |-> 61000, EngineType |-> "NA", Drivetrain |-> "RWD"],
       [Brand |-> "BrandB", Model |-> <<"c">>, ChassisCode |-> <<"r">>,
        Time_sec |-> 58200, EngineType |-> "FI", Drivetrain |-> "AWD"],
       [Brand |-> "BrandC", Model |-> <<"r">>, ChassisCode |-> <<"c">>,
        Time_sec |-> 58200, EngineType |-> "NA", Drivetrain |-> "FWD"],
       [Brand |-> "BrandB", Model |-> <<"C", " ", "r">>, ChassisCode |-> <<"K">>,
        Time_sec |-> 61200, EngineType |-> "FI", Drivetrain |-> "AWD"],
       [Brand |-> "BrandC", Model |-> Rep("x", 62), ChassisCode |-> <<"k">>,
        Time_sec |-> 58500, EngineType |-> "FI", Drivetrain |-> "AWD"],
       [Brand |-> "BrandA", Model |-> <<"c", " ", "r">>, ChassisCode |-> <<"k">>,
        Time_sec |-> 60000, EngineType |-> "NA", Drivetrain |-> "RWD"],
       [Brand |-> "BrandA", Model |-> <<"c", "r">>, ChassisCode |-> <<"c", " ", "r">>,
        Time_sec |-> 60000, EngineType |-> "NA", Drivetrain |-> "FWD"],
       [Brand |-> "BrandC", Model |-> <<"r", " ", " ", "C">>, ChassisCode |-> <<"r", "c">>,
        Time_sec |-> 62300, EngineType |-> "FI", Drivetrain |-> "RWD"] >>

Rec(id) == Pool[id]

\* ids of the rows the enumerated stores draw from, and of the text-filter store
StoreIds == 1..5
TextStore == <<6, 2, 3, 4, 7, 8>>

\* Python's string order on the values that occur
BrandAlphabet == <<"BrandA", "BrandB", "BrandC">>
DrivetrainAlphabet == <<"AWD", "FWD", "RWD">>
EngineAlphabet == <<"FI", "NA">>

\* the row of df_plot with index label i (labels are the positions 1..Len)
Row(i) == Rec(df_plot[i])

\* sorted(df_plot[col].unique().tolist())
SortedUnique(alphabet, S) == Keep(alphabet, S)

all_brands == SortedUnique(BrandAlphabet, {Row(i).Brand : i \in DOMAIN df_plot})
all_drivetrains == SortedUnique(DrivetrainAlphabet, {Row(i).Drivetrain : i \in DOMAIN df_plot})
all_engine_types == SortedUnique(EngineAlphabet, {Row(i).EngineType : i \in DOMAIN df_plot})

\* the option values of the three dropdowns (lines 112-113, 127-128, 142-143)
brand_options == <<"ALL">> \o all_brands
drivetrain_options == <<"ALL">> \o all_drivetrains
engine_options == <<"ALL">> \o all_engine_types

(***************************************************************************)
(* Dropdown "All" selection management (lines 180-218)                     *)
(***************************************************************************)

\* [b for b in selected if b != 'ALL']
WithoutAll(xs) == Keep(xs, Range(xs) \ {"ALL"})

\* the reducer that lets 'ALL' win whenever it is in the list
dropdown_all_wins(selected) ==
    IF selected.kind = "none" THEN PyStr("ALL")
    ELSE IF selected.kind = "list"
    THEN IF "ALL" \in Range(selected.items) \/ Len(selected.items) = 0
         THEN PyStr("ALL")
         ELSE selected
    ELSE selected

\* the reducer that returns the raw value when 'ALL' comes with other items
dropdown_keeps_all(selected) ==
    IF selected.kind = "none" THEN PyStr("ALL")
    ELSE IF selected.kind = "list"
    THEN IF selected.items = <<"ALL">> \/ Len(selected.items) = 0
         THEN PyStr("ALL")
         ELSE selected
    ELSE selected

\* the reducer that answers an empty list with the list ['ALL']
dropdown_empty_to_all_list(selected) ==
    IF selected.kind = "none" THEN PyStr("ALL")
    ELSE IF selected.kind = "list"
    THEN IF Len(selected.items) > 1 /\ "ALL" \in Range(selected.items)
         THEN PyList(WithoutAll(selected.items))
         ELSE IF selected.items = <<"ALL">> THEN PyStr("ALL")
         ELSE IF Len(selected.items) = 0 THEN PyList(<<"ALL">>)
         ELSE selected
    ELSE selected

update_brand_dropdown(selected_brands_) ==
    IF selected_brands_.kind = "none" THEN PyStr("ALL")
    ELSE IF selected_brands_.kind = "list"
    THEN IF Len(selected_brands_.items) > 1 /\ "ALL" \in Range(selected_brands_.items)
         THEN PyList(WithoutAll(selected_brands_.items))
         ELSE IF selected_brands_.items = <<"ALL">> THEN PyStr("ALL")
         ELSE IF Len(selected_brands_.items) = 0 THEN PyStr("ALL")
         ELSE selected_brands_
    ELSE selected_brands_

update_drivetrain_dropdown(selected_drivetrain_) ==
    IF selected_drivetrain_.kind = "none" THEN PyStr("ALL")
    ELSE IF selected_drivetrain_.kind = "list"
    THEN IF Len(selected_drivetrain_.items) > 1 /\ "ALL" \in Range(selected_drivetrain_.items)
         THEN PyList(WithoutAll(selected_drivetrain_.items))
         ELSE IF selected_drivetrain_.items = <<"ALL">> THEN PyStr("ALL")
         ELSE IF Len(selected_drivetrain_.items) = 0 THEN PyStr("ALL")
         ELSE selected_drivetrain_
    ELSE selected_drivetrain_

\* the longest raw list a user edit delivers in the model
MaxSelLen == 2

IsInjective(xs) == \A i, j \in DOMAIN xs : xs[i] = xs[j] => i = j

\* What the component can deliver as the raw value: None, the initial str 'ALL',
\* or a list of option values, each at most once.
RawSelections(options) ==
    {PyNone, PyStr("ALL")}
    \cup {PyList(xs) : xs \in {ys \in SeqsUpTo(Range(options), MaxSelLen) : IsInjective(ys)}}

\* The user edits the brand dropdown: the component's value becomes raw and the
\* callback update_brand_dropdown writes its return value back to it.
\* brand_prev and brand_raw record the value before the edit and the raw value.
SelectBrand(raw) ==
    /\ brand_prev' = brand_value
    /\ brand_raw' = raw
    /\ brand_value' = update_brand_dropdown(raw)
    /\ UNCHANGED <<drivetrain_value, drivetrain_prev, drivetrain_raw,
                   codec_vars, store_vars, viz_vars>>

SelectDrivetrain(raw) ==
    /\ drivetrain_prev' = drivetrain_value
    /\ drivetrain_raw' = raw
    /\ drivetrain_value' = update_drivetrain_dropdown(raw)
    /\ UNCHANGED <<brand_value, brand_prev, brand_raw,
                   codec_vars, store_vars, viz_vars>>

(***************************************************************************)
(* update_visualization: the filters (lines 236-276)                       *)
(***************************************************************************)

\* Python truth value of a dropdown value: None, '' and [] are false
Truthy(sel) ==
    CASE sel.kind = "none" -> FALSE
      [] sel.kind = "str" -> sel.s # ""
      [] sel.kind = "list" -> sel.items # <<>>

\* 'ALL' in sel or sel == 'ALL'   (the only str a dropdown delivers is 'ALL')
HasAll(sel) ==
    CASE sel.kind = "list" -> "ALL" \in Range(sel.items)
      [] sel.kind = "str" -> sel.s = "ALL"
      [] OTHER -> FALSE

\* the values isin() tests against (a str is wrapped into a list, lines 240-241)
IsinValues(sel) == IF sel.kind = "str" THEN {sel.s} ELSE Range(sel.items)

\* the multi-select filter that takes the first selected value only
multi_filter_first_only(rows, sel, column) ==
    IF Truthy(sel) /\ ~HasAll(sel)
    THEN Keep(rows, {i \in Range(rows) :
             Row(i)[column] = (IF sel.kind = "str" THEN sel.s ELSE sel.items[1])})
    ELSE rows

\* lines 239-242 and 245-248: filtered_df[filtered_df[col].isin(selected)]
multi_filter(rows, sel, column) ==
    IF Truthy(sel) /\ ~HasAll(sel)
    THEN Keep(rows, {i \in Range(rows) : Row(i)[column] \in IsinValues(sel)})
    ELSE rows

\* the engine filter that is skipped
engine_filter_off(rows, engine) == rows

\* lines 250-251
engine_filter(rows, engine) ==
    IF engine # "ALL"
    THEN Keep(rows, {i \in Range(rows) : Row(i).EngineType = engine})
    ELSE rows

\* x in list, for a list of strs
InSeq(x, xs) == \E k \in DOMAIN xs : xs[k] = x

\* s is a substring of t
IsSubstring(s, t) == \E a \in 0..(Len(t) - Len(s)) : SubSeq(t, a + 1, a + Len(s)) = s

\* search_terms = [term.strip().lower() for term in text.split(',')]
search_terms_of(text) ==
    LET parts == str_split(text, ",")
    IN  [k \in DOMAIN parts |-> str_lower(str_strip(parts[k]))]

\* matches_any_term with a substring test instead of the word test
matches_any_term_substring(search_terms, model, chassis) ==
    \E k \in DOMAIN search_terms :
        LET term == search_terms[k]
        IN  IF Len(str_split_ws(term)) > 1 THEN term = str_lower(model)
            ELSE IsSubstring(term, str_lower(model)) \/ term = str_lower(chassis)

\* lines 259-275; the loop returns at the first term that matches
matches_any_term(search_terms, model, chassis) ==
    LET model_lower == str_lower(model)
        chassis_lower == str_lower(chassis)
        model_words == str_split_ws(model_lower)
    IN  \E k \in DOMAIN search_terms :
            LET term == search_terms[k]
                term_words == str_split_ws(term)
            IN  IF Len(term_words) > 1
                THEN term = model_lower
                ELSE InSeq(term, model_words) \/ term = chassis_lower

\* lines 254-276
text_filter(rows, search) ==
    IF ~search.isna /\ search.chars # <<>> /\ str_strip(search.chars) # <<>>
    THEN LET search_terms == search_terms_of(search.chars)
         IN  Keep(rows, {i \in Range(rows) :
                 matches_any_term(search_terms, Row(i).Model, Row(i).ChassisCode)})
    ELSE rows

\* lines 236-276: df_plot.copy() narrowed by the four filters, as index labels
apply_filters(sb, sd, se, search) ==
    LET f0 == [i \in DOMAIN df_plot |-> i]
        f1 == multi_filter(f0, sb, "Brand")
        f2 == multi_filter(f1, sd, "Drivetrain")
        f3 == engine_filter(f2, se)
    IN  text_filter(f3, search)

(***************************************************************************)
(* update_visualization: brand order and chart width (lines 279-306)       *)
(***************************************************************************)

IndexOf(xs, x) == CHOOSE k \in DOMAIN xs : xs[k] = x

\* filtered_df.groupby('Brand')['Time_sec'].min(): a Series of (brand, minimum),
\* the group keys sorted
groupby_brand_min(fd) ==
    LET keys == SortedUnique(BrandAlphabet, {Row(i).Brand : i \in Range(fd)})
    IN  [k \in DOMAIN keys |->
            <<keys[k], MinOfSet({Row(i).Time_sec : i \in {j \in Range(fd) : Row(j).Brand = keys[k]}})>>]

\* a sort by insertion: e goes before the first element it is Before
\* (Before is a strict total order on the elements sorted here)
RECURSIVE InsertSorted(_, _, _)
InsertSorted(sorted, e, Before) ==
    IF sorted = <<>> THEN <<e>>
    ELSE IF <<e, Head(sorted)>> \in Before THEN <<e>> \o sorted
    ELSE <<Head(sorted)>> \o InsertSorted(Tail(sorted), e, Before)

RECURSIVE SortBy(_, _)
SortBy(xs, Before) ==
    IF xs = <<>> THEN <<>>
    ELSE InsertSorted(SortBy(Tail(xs), Before), Head(xs), Before)

\* Series.sort_values() that sorts descending
sort_values_descending(series) ==
    SortBy(series, {<<a, b>> \in Range(series) \X Range(series) :
        a[2] > b[2] \/ (a[2] = b[2] /\ IndexOf(sort_ties, a[1]) < IndexOf(sort_ties, b[1]))})

\* Series.sort_values(): ascending by value.  Its default kind is 'quicksort',
\* which pandas documents as not stable: where two values are equal the order is
\* the build's, here the order of the two brands in sort_ties.
sort_values(series) ==
    SortBy(series, {<<a, b>> \in Range(series) \X Range(series) :
        a[2] < b[2] \/ (a[2] = b[2] /\ IndexOf(sort_ties, a[1]) < IndexOf(sort_ties, b[1]))})

\* lines 280-281: brand_fastest_time.index.tolist()
brand_order_of(fd) ==
    LET brand_fastest_time == sort_values(groupby_brand_min(fd))
    IN  [k \in DOMAIN brand_fastest_time |-> brand_fastest_time[k][1]]

\* line 282 and 284: the 0-based slot of a brand
brand_position_simple(order, brand) == IndexOf(order, brand) - 1

\* f"{row['Model']} {row['ChassisCode']}"
label_text(i) == Row(i).Model \o <<" ">> \o Row(i).ChassisCode

\* lines 287-291: max([len(label) ...] or [0]) over the rows of the brand
brand_max_text_width(fd, brand) ==
    LET lens == {Len(label_text(i)) : i \in {j \in Range(fd) : Row(j).Brand = brand}}
    IN  IF lens = {} THEN 0 ELSE MaxOfSet(lens)

\* char_width = 0.08, in hundredths
CharWidthHundredths == 8
\* the clamp and the terms of content_width (lines 300-302)
WidthPerBrand == 100
WidthBase == 500
WidthPerUnit == 200
MinWidth == 900
MaxWidth == 1600

\* line 294, in hundredths of an axis unit
max_brand_width_of(fd, order) ==
    IF order = <<>> THEN 0
    ELSE MaxOfSet({brand_max_text_width(fd, order[k]) : k \in DOMAIN order}) * CharWidthHundredths

\* the width without the upper clamp
responsive_width_unclamped(fd, order) ==
    IF Len(fd) > 0
    THEN Max(MinWidth, Len(order) * WidthPerBrand + WidthBase
                       + (max_brand_width_of(fd, order) * WidthPerUnit) \div 100)
    ELSE MinWidth

\* lines 298-306
responsive_width_of(fd, order) ==
    IF Len(fd) > 0
    THEN LET num_brands == Len(order)
             content_width == num_brands * WidthPerBrand + WidthBase
                              + (max_brand_width_of(fd, order) * WidthPerUnit) \div 100
         IN  Min(MaxWidth, Max(MinWidth, content_width))
    ELSE MinWidth

(***************************************************************************)
(* update_visualization: traces (lines 316-388)                            *)
(***************************************************************************)

\* the frame sorted by one column only
sort_by_time_only(fd, order) ==
    SortBy(fd, {<<i, j>> \in Range(fd) \X Range(fd) :
        Row(i).Time_sec < Row(j).Time_sec \/ (Row(i).Time_sec = Row(j).Time_sec /\ i < j)})

\* line 317: filtered_df.sort_values(['Brand_X_simple', 'Time_sec']); a sort on
\* several columns is a lexsort, which keeps equal rows in their order
df_sorted_of(fd, order) ==
    SortBy(fd, {<<i, j>> \in Range(fd) \X Range(fd) :
        LET xi == brand_position_simple(order, Row(i).Brand)
            xj == brand_position_simple(order, Row(j).Brand)
        IN  \/ xi < xj
            \/ xi = xj /\ Row(i).Time_sec < Row(j).Time_sec
            \/ xi = xj /\ Row(i).Time_sec = Row(j).Time_sec /\ i < j})

\* lines 321-325, as (engine_type, drivetrain)
legend_order ==
    << <<"NA", "RWD">>, <<"FI", "RWD">>,
       <<"NA", "AWD">>, <<"FI", "AWD">>,
       <<"NA", "FWD">>, <<"FI", "FWD">> >>

\* the label sits 0.10 to the right of the point, in hundredths (line 377)
LabelOffsetHundredths == 10

\* lines 337-388 for one row: the marker trace, then the text trace.
\* x is in hundredths of a slot; name is the legend group (drivetrain, engine).
row_traces(i, order, engine_type, drivetrain, is_first) ==
    LET x_pos == brand_position_simple(order, Row(i).Brand) * 100
        y_pos == Row(i).Time_sec
    IN  << [mode |-> "markers", row |-> i, x |-> x_pos, y |-> y_pos,
            name |-> <<drivetrain, engine_type>>, showlegend |-> is_first],
           [mode |-> "text", row |-> i, x |-> x_pos + LabelOffsetHundredths, y |-> y_pos,
            name |-> <<drivetrain, engine_type>>, showlegend |-> FALSE] >>

\* the loop over one group that never clears is_first
RECURSIVE subset_traces_all_first(_, _, _, _, _)
subset_traces_all_first(subset, order, engine_type, drivetrain, is_first) ==
    IF subset = <<>> THEN <<>>
    ELSE row_traces(Head(subset), order, engine_type, drivetrain, is_first)
         \o subset_traces_all_first(Tail(subset), order, engine_type, drivetrain, is_first)

\* lines 335-388: the loop over the rows of one group
RECURSIVE subset_traces(_, _, _, _, _)
subset_traces(subset, order, engine_type, drivetrain, is_first) ==
    IF subset = <<>> THEN <<>>
    ELSE row_traces(Head(subset), order, engine_type, drivetrain, is_first)
         \o subset_traces(Tail(subset), order, engine_type, drivetrain, FALSE)

\* lines 328-388: the loop over legend_order from group k on
RECURSIVE legend_traces(_, _, _)
legend_traces(sorted, order, k) ==
    IF k > Len(legend_order) THEN <<>>
    ELSE LET engine_type == legend_order[k][1]
             drivetrain == legend_order[k][2]
             df_subset == Keep(sorted, {i \in Range(sorted) :
                              Row(i).EngineType = engine_type /\ Row(i).Drivetrain = drivetrain})
         IN  subset_traces(df_subset, order, engine_type, drivetrain, TRUE)
             \o legend_traces(sorted, order, k + 1)

traces_of(fd, order) ==
    IF Len(fd) > 0 THEN legend_traces(df_sorted_of(fd, order), order, 1) ELSE <<>>

(***************************************************************************)
(* update_visualization: y-axis ticks (lines 391-397)                      *)
(***************************************************************************)

\* tick_interval = 0.5, in milliseconds
TickInterval == 500

\* np.ceil(x / tick_interval) * tick_interval
CeilToTick(x) == ((x + TickInterval - 1) \div TickInterval) * TickInterval

\* np.arange(start, stop, step): start + k*step for the k with start + k*step < stop
np_arange(start, stop, step) ==
    LET n == IF stop > start THEN (stop - start + step - 1) \div step ELSE 0
    IN  [k \in 1..n |-> start + (k - 1) * step]

\* np.sort(np.unique(xs)): the values of xs, each once, ascending
np_sort_unique(xs) == SortedSeqOfSet(Range(xs))

\* the ticks when arange stops at max_time
tick_values_to_max(fd) ==
    IF Len(fd) > 0
    THEN LET min_time == MinOfSet({Row(i).Time_sec : i \in Range(fd)})
             max_time == MaxOfSet({Row(i).Time_sec : i \in Range(fd)})
         IN  np_sort_unique(<<min_time>> \o
                 np_arange(CeilToTick(min_time), max_time + 1, TickInterval))
    ELSE <<>>

\* lines 318, 391-397
tick_values_of(fd) ==
    IF Len(fd) > 0
    THEN LET min_time == MinOfSet({Row(i).Time_sec : i \in Range(fd)})
             max_time == MaxOfSet({Row(i).Time_sec : i \in Range(fd)})
         IN  np_sort_unique(<<min_time>> \o
                 np_arange(CeilToTick(min_time), max_time + TickInterval, TickInterval))
    ELSE <<>>

(***************************************************************************)
(* update_visualization: summary (lines 446-473)                           *)
(***************************************************************************)

\* no fastest row (lines 467-471)
NoRow == 0

\* idxmin that returns the last row holding the minimum
idxmin_last(fd) ==
    IF Len(fd) > 0
    THEN LET m == MinOfSet({Row(i).Time_sec : i \in Range(fd)})
         IN  fd[MaxOfSet({k \in DOMAIN fd : Row(fd[k]).Time_sec = m})]
    ELSE NoRow

\* lines 451-453: filtered_df['Time_sec'].idxmin() is the label of the first
\* row that holds the minimum
fastest_idx_of(fd) ==
    IF Len(fd) > 0
    THEN LET m == MinOfSet({Row(i).Time_sec : i \in Range(fd)})
         IN  fd[MinOfSet({k \in DOMAIN fd : Row(fd[k]).Time_sec = m})]
    ELSE NoRow

\* line 448
total_brands_of(fd) ==
    IF Len(fd) > 0 THEN Cardinality({Row(i).Brand : i \in Range(fd)}) ELSE 0

(***************************************************************************)
(* update_visualization (lines 232-473)                                    *)
(***************************************************************************)

\* df.copy(): the result is a new frame, never df_plot itself
df_no_copy(is_df_plot) == is_df_plot

df_copy(is_df_plot) == FALSE

\* whether filtered_df is the object df_plot when line 283 is reached: line 236
\* copies df_plot, and every filter that runs (lines 242, 248, 251, 276) builds
\* a new frame by boolean indexing
filtered_is_df_plot(sb, sd, se, search) ==
    /\ df_copy(TRUE)
    /\ ~(Truthy(sb) /\ ~HasAll(sb))
    /\ ~(Truthy(sd) /\ ~HasAll(sd))
    /\ se = "ALL"
    /\ ~(~search.isna /\ search.chars # <<>> /\ str_strip(search.chars) # <<>>)

\* the arguments of the callback, and what it returns
Selection ==
    [brands |-> selected_brands, drivetrain |-> selected_drivetrain,
     engine |-> selected_engine, search |-> model_chassis_search]

Outputs ==
    [filtered_df |-> filtered_df, brand_order_simple |-> brand_order_simple,
     max_brand_width |-> max_brand_width, responsive_width |-> responsive_width,
     traces |-> traces, tick_values |-> tick_values,
     total_vehicles |-> total_vehicles, total_brands |-> total_brands,
     fastest_idx |-> fastest_idx]

\* The callback runs on the current values of its four Input components.
update_visualization ==
    LET fd == apply_filters(selected_brands, selected_drivetrain, selected_engine,
                            model_chassis_search)
        order == IF Len(fd) > 0 THEN brand_order_of(fd) ELSE <<>>
        \* lines 283-284: filtered_df = filtered_df.copy(), then the new column
        writes_df_plot ==
            /\ Len(fd) > 0
            /\ df_copy(filtered_is_df_plot(selected_brands, selected_drivetrain,
                                           selected_engine, model_chassis_search))
    IN  /\ viz_called' = TRUE
        /\ filtered_df' = fd
        /\ brand_order_simple' = order
        /\ max_brand_width' = (IF Len(fd) > 0 THEN max_brand_width_of(fd, order) ELSE 0)
        /\ responsive_width' = responsive_width_of(fd, order)
        /\ traces' = traces_of(fd, order)
        /\ tick_values' = tick_values_of(fd)
        /\ total_vehicles' = Len(fd)
        /\ total_brands' = total_brands_of(fd)
        /\ fastest_idx' = fastest_idx_of(fd)
        /\ df_plot_Brand_X_simple' =
              (IF writes_df_plot
               THEN [i \in DOMAIN fd |-> brand_position_simple(order, Row(fd[i]).Brand)]
               ELSE df_plot_Brand_X_simple)
        /\ first_results' =
              (IF \E k \in DOMAIN first_results : first_results[k].sel = Selection
               THEN first_results
               ELSE Append(first_results, [sel |-> Selection, out |-> Outputs']))
        /\ UNCHANGED <<selected_brands, selected_drivetrain, selected_engine,
                       model_chassis_search, codec_vars, dropdown_vars, df_plot, sort_ties>>

\* Dash delivers new values of the four Input components (lines 226-229)
ChangeSelection(s) ==
    /\ s # Selection
    /\ selected_brands' = s.brands
    /\ selected_drivetrain' = s.drivetrain
    /\ selected_engine' = s.engine
    /\ model_chassis_search' = s.search
    /\ UNCHANGED <<viz_called, filtered_df, brand_order_simple, max_brand_width,
                   responsive_width, traces, tick_values, total_vehicles,
                   total_brands, fastest_idx, first_results,
                   codec_vars, dropdown_vars, store_vars>>

(***************************************************************************)
(* Initial states and specifications                                       *)
(***************************************************************************)

\* the largest number of rows of an enumerated Record Store
MaxRecords == 3
\* the longest search text of SpecText, and the longest free-form time text
MaxTextLen == 4
MaxRawTimeLen == 3

CodecIdle ==
    /\ time_text = NoText
    /\ time_sec = NaN
    /\ time_duration = <<>>
    /\ codec_pc = "idle"

\* value='ALL' of both multi-select dropdowns (lines 114, 129)
DropdownInit ==
    /\ brand_value = PyStr("ALL")
    /\ brand_prev = PyStr("ALL")
    /\ brand_raw = PyStr("ALL")
    /\ drivetrain_value = PyStr("ALL")
    /\ drivetrain_prev = PyStr("ALL")
    /\ drivetrain_raw = PyStr("ALL")

\* the initial values of the four Input components (lines 114, 129, 144, 155)
InputsInit ==
    /\ selected_brands = PyStr("ALL")
    /\ selected_drivetrain = PyStr("ALL")
    /\ selected_engine = "ALL"
    /\ model_chassis_search = NoText

\* before the first call of update_visualization
OutputsInit ==
    /\ viz_called = FALSE
    /\ filtered_df = <<>>
    /\ brand_order_simple = <<>>
    /\ max_brand_width = 0
    /\ responsive_width = MinWidth
    /\ traces = <<>>
    /\ tick_values = <<>>
    /\ total_vehicles = 0
    /\ total_brands = 0
    /\ fastest_idx = NoRow
    /\ first_results = <<>>

\* the stores: up to MaxRecords different rows of StoreIds, in any order
Stores == {st \in SeqsUpTo(StoreIds, MaxRecords) : IsInjective(st)}

\* the orders a build may give equal values
TieOrders == {p \in [1..Len(BrandAlphabet) -> Range(BrandAlphabet)] : IsInjective(p)}

\* the sorted sub-lists of a list of option values, at most MaxSelLen long
SortedSublists(xs) ==
    {Keep(xs, S) :
        S \in {T \in SUBSET Range(xs) : Cardinality(T) <= MaxSelLen}}

\* FilterSelection values of a multi-select: None, 'ALL', or a list of concrete
\* option values (possibly empty): what the reducers above deliver, plus the
\* two empty values update_visualization tolerates
MultiSelections(values) ==
    {PyNone, PyStr("ALL")} \cup {PyList(xs) : xs \in SortedSublists(values)}

\* for the second multi-select: 'ALL', each single value, every value at once
FewMultiSelections(values) ==
    {PyStr("ALL"), PyList(values)} \cup {PyList(<<values[k]>>) : k \in DOMAIN values}

SearchTexts == {NoText, Text(<<"c">>)}

\* update_visualization as a function of (Record Store, FilterSelection): the
\* store and the four input values are drawn here.  The build's tie order
\* matters to the layout only, and the selection only through the rows it
\* keeps, so every tie order is explored with the engine filter alone and
\* every selection with one tie order.
Init ==
    /\ CodecIdle
    /\ DropdownInit
    /\ df_plot \in Stores
    /\ df_plot_Brand_X_simple = <<>>
    /\ \/ /\ sort_ties \in TieOrders
          /\ selected_brands = PyStr("ALL")
          /\ selected_drivetrain = PyStr("ALL")
          /\ selected_engine \in Range(engine_options)
          /\ model_chassis_search = NoText
       \/ /\ sort_ties = BrandAlphabet
          /\ selected_brands \in MultiSelections(all_brands)
          /\ selected_drivetrain \in FewMultiSelections(all_drivetrains)
          /\ selected_engine \in Range(engine_options)
          /\ model_chassis_search \in SearchTexts
    /\ OutputsInit

Next == update_visualization

Spec == Init /\ [][Next]_vars

\* --- the text filter on its own: one store, every short search text ---

TextAlphabet == {"c", "C", "r", " ", ","}

InitText ==
    /\ CodecIdle
    /\ DropdownInit
    /\ df_plot = TextStore
    /\ df_plot_Brand_X_simple = <<>>
    /\ sort_ties = BrandAlphabet
    /\ selected_brands = PyStr("ALL")
    /\ selected_drivetrain = PyStr("ALL")
    /\ selected_engine = "ALL"
    /\ model_chassis_search \in {NoText} \cup {Text(chars) : chars \in SeqsUpTo(TextAlphabet, MaxTextLen)}
    /\ OutputsInit

NextText == update_visualization

SpecText == InitText /\ [][NextText]_vars

\* --- the dropdown reducers on their own ---

InitDropdown ==
    /\ CodecIdle
    /\ DropdownInit
    /\ df_plot = <<2, 3>>
    /\ df_plot_Brand_X_simple = <<>>
    /\ sort_ties = BrandAlphabet
    /\ InputsInit
    /\ OutputsInit

NextDropdown ==
    \/ \E raw \in RawSelections(brand_options) : SelectBrand(raw)
    \/ \E raw \in RawSelections(drivetrain_options) : SelectDrivetrain(raw)

SpecDropdown == InitDropdown /\ [][NextDropdown]_vars

\* --- the time codec on its own ---

\* digits the enumerated time texts are made of
TimeDigits == {"0", "1", "5", "9"}

\* texts of the MM:SS.sss shape, with seconds parts below and above 60
CanonicalTexts ==
    {<<m1, m2, ":", s1, s2, ".", f1, f2, f3>> :
        m1 \in {"0", "1"}, m2 \in TimeDigits, s1 \in {"0", "5", "9"}, s2 \in TimeDigits,
        f1 \in {"0", "9"}, f2 \in {"0", "5"}, f3 \in TimeDigits}

FreeTexts == SeqsUpTo({"1", "7", ":", ".", " "}, MaxRawTimeLen)

\* "01:39.289"
ExampleText == <<"0", "1", ":", "3", "9", ".", "2", "8", "9">>

TimeTexts == {NoText} \cup {Text(s) : s \in CanonicalTexts \cup FreeTexts \cup {ExampleText}}

InitCodec ==
    /\ time_text \in TimeTexts
    /\ time_sec = NaN
    /\ time_duration = <<>>
    /\ codec_pc = "loaded"
    /\ DropdownInit
    /\ df_plot = <<>>
    /\ df_plot_Brand_X_simple = <<>>
    /\ sort_ties = BrandAlphabet
    /\ InputsInit
    /\ OutputsInit

NextCodec == ApplyParseTime \/ ApplyFormatTime

SpecCodec == InitCodec /\ [][NextCodec]_vars

\* --- a session: the selection changes between the invocations ---

SessionStores == {<<1, 2, 3>>, <<3, 2, 4>>, <<5>>}

SessionSelections ==
    {[brands |-> PyStr("ALL"), drivetrain |-> PyStr("ALL"), engine |-> "ALL", search |-> NoText],
     [brands |-> PyList(<<"BrandB">>), drivetrain |-> PyStr("ALL"), engine |-> "ALL", search |-> NoText],
     [brands |-> PyStr("ALL"), drivetrain |-> PyStr("ALL"), engine |-> "FI", search |-> NoText],
     [brands |-> PyStr("ALL"), drivetrain |-> PyList(<<"FWD">>), engine |-> "ALL",
      search |-> Text(<<"c">>)]}

InitSession ==
    /\ CodecIdle
    /\ DropdownInit
    /\ df_plot \in SessionStores
    /\ df_plot_Brand_X_simple = <<>>
    /\ sort_ties = BrandAlphabet
    /\ InputsInit
    /\ OutputsInit

NextSession ==
    \/ \E s \in SessionSelections : ChangeSelection(s)
    \/ update_visualization

SpecSession == InitSession /\ [][NextSession]_vars

(***************************************************************************)
(* Properties.  What a property compares the code's result with is stated  *)
(* here on its own, by positions and sets, not with the operators above.   *)
(***************************************************************************)

\* the rows update_visualization kept, and their times and brands
KeptRows == Range(filtered_df)
KeptBrands == {Row(i).Brand : i \in KeptRows}
KeptMinTime == MinOfSet({Row(i).Time_sec : i \in KeptRows})
KeptMaxTime == MaxOfSet({Row(i).Time_sec : i \in KeptRows})
MinTimeOfBrand(b) == MinOfSet({Row(i).Time_sec : i \in {j \in KeptRows : Row(j).Brand = b}})

StrictlyIncreasing(xs) == \A k, l \in DOMAIN xs : k < l => xs[k] < xs[l]

\* --- the text rule of the specification -------------------------------

EqIgnoreCase(a, b) ==
    Len(a) = Len(b) /\ \A i \in 1..Len(a) : LowerChar(a[i]) = LowerChar(b[i])

NoSpaceIn(t, a, b) == \A i \in a..b : t[i] # " "

\* t[a..b] is a piece of t between two commas (or the ends of t)
IsCommaPiece(t, a, b) ==
    /\ a \in 1..(Len(t) + 1) /\ b \in (a - 1)..Len(t)
    /\ a = 1 \/ t[a - 1] = ","
    /\ b = Len(t) \/ t[b + 1] = ","
    /\ \A i \in a..b : t[i] # ","

\* t[a..b] without the blanks at its two ends
Trimmed(t, a, b) ==
    LET inside == {i \in a..b : t[i] # " "}
    IN  IF inside = {} THEN <<>> ELSE SubSeq(t, MinOfSet(inside), MaxOfSet(inside))

\* the terms of a search text
TermsOf(t) ==
    {Trimmed(t, a, b) : <<a, b>> \in {ab \in (1..(Len(t) + 1)) \X (0..Len(t)) :
                                          IsCommaPiece(t, ab[1], ab[2])}}

WordCount(t) == Cardinality({i \in 1..Len(t) : t[i] # " " /\ (i = 1 \/ t[i - 1] = " ")})

\* w is one of the whitespace-separated words of m (case-insensitive)
IsWordOf(w, m) ==
    \E a, b \in 1..Len(m) :
        /\ a <= b /\ NoSpaceIn(m, a, b)
        /\ a = 1 \/ m[a - 1] = " "
        /\ b = Len(m) \/ m[b + 1] = " "
        /\ EqIgnoreCase(w, SubSeq(m, a, b))

TermMatches(term, rec) ==
    IF WordCount(term) > 1
    THEN EqIgnoreCase(term, rec.Model)
    ELSE IsWordOf(term, rec.Model) \/ EqIgnoreCase(term, rec.ChassisCode)

IsBlank(search) == search.isna \/ \A i \in 1..Len(search.chars) : search.chars[i] = " "

TextKeeps(search, rec) ==
    IsBlank(search) \/ \E term \in TermsOf(search.chars) : TermMatches(term, rec)

\* --- the multi-select rule of the specification ------------------------

AllOrEmpty(sel) == sel = PyStr("ALL") \/ sel = PyNone \/ sel = PyList(<<>>)

SelectionKeeps(sel, v) == AllOrEmpty(sel) \/ v \in Range(sel.items)

PassesAllFour(i) ==
    /\ SelectionKeeps(selected_brands, Row(i).Brand)
    /\ SelectionKeeps(selected_drivetrain, Row(i).Drivetrain)
    /\ selected_engine = "ALL" \/ Row(i).EngineType = selected_engine
    /\ TextKeeps(model_chassis_search, Row(i))

\* C1: the filtered set is exactly the rows of the Record Store that pass the
\* brand, drivetrain, engine and text criteria at once, in Record Store order.
C1_FilterIsConjunction ==
    viz_called =>
        /\ KeptRows = {i \in DOMAIN df_plot : PassesAllFour(i)}
        /\ StrictlyIncreasing(filtered_df)

\* all four filters are active, two rows are kept in store order, one is dropped
C1_Witness ==
    /\ viz_called
    /\ selected_brands.kind = "list" /\ selected_brands.items # <<>>
    /\ selected_drivetrain.kind = "list"
    /\ selected_engine # "ALL"
    /\ ~IsBlank(model_chassis_search)
    /\ Len(df_plot) = 3
    /\ Len(filtered_df) = 2

\* C2: with the brand, drivetrain and engine filters at 'ALL', a row is kept
\* if and only if the search text is empty or blank, or one of its comma
\* separated, trimmed terms matches it: a term of several words equals the
\* Model, a one-word term is a word of the Model or equals the ChassisCode
\* (all case-insensitive).
C2_TextRule ==
    (/\ viz_called
     /\ selected_brands = PyStr("ALL")
     /\ selected_drivetrain = PyStr("ALL")
     /\ selected_engine = "ALL")
    => \A i \in DOMAIN df_plot : i \in KeptRows <=> TextKeeps(model_chassis_search, Row(i))

\* the term "c r" keeps the rows whose Model is "c r" or "C r" and no other
C2_Witness ==
    /\ viz_called
    /\ df_plot = TextStore
    /\ model_chassis_search = Text(<<"c", " ", "r">>)
    /\ filtered_df = <<1, 4>>

\* the first row of the Record Store that has brand b
FirstRowOfBrand(b) == MinOfSet({i \in DOMAIN df_plot : Row(i).Brand = b})

\* C3 as claimed: brands in ascending order of their minimum time, two brands
\* with the same minimum in the order in which they appear in the Record Store.
C3_StoreOrderTieBreak ==
    (viz_called /\ Len(filtered_df) > 0) =>
        /\ Range(brand_order_simple) = KeptBrands
        /\ \A k, l \in DOMAIN brand_order_simple : k < l =>
              LET a == brand_order_simple[k]
                  b == brand_order_simple[l]
              IN  \/ MinTimeOfBrand(a) < MinTimeOfBrand(b)
                  \/ /\ MinTimeOfBrand(a) = MinTimeOfBrand(b)
                     /\ FirstRowOfBrand(a) < FirstRowOfBrand(b)

\* C3 as amended: every brand of the filtered set has exactly one of the slots
\* 0..n-1, the slots are in ascending order of the brands' minimum times, and
\* every marker sits on the slot of its brand; nothing more holds of two
\* brands with the same minimum.
C3_AscendingByMinimum ==
    (viz_called /\ Len(filtered_df) > 0) =>
        /\ Range(brand_order_simple) = KeptBrands
        /\ Len(brand_order_simple) = Cardinality(KeptBrands)
        /\ \A k, l \in DOMAIN brand_order_simple : k < l =>
              MinTimeOfBrand(brand_order_simple[k]) <= MinTimeOfBrand(brand_order_simple[l])
        /\ \A t \in DOMAIN traces : traces[t].mode = "markers" =>
              brand_order_simple[traces[t].x \div 100 + 1] = Row(traces[t].row).Brand

\* the example of the claim: BrandA 61.0 s, BrandB 58.2 s, BrandC 58.2 s
C3_Witness ==
    /\ viz_called
    /\ df_plot = <<1, 2, 3>>
    /\ Len(filtered_df) = 3
    /\ brand_order_simple = <<"BrandB", "BrandC", "BrandA">>

\* C4: the value a dropdown reducer returns is 'ALL' alone or a non-empty list
\* of concrete values without 'ALL'; a raw value of None or [] returns 'ALL'.
IsNormalized(v) ==
    \/ v = PyStr("ALL")
    \/ v.kind = "list" /\ v.items # <<>> /\ "ALL" \notin Range(v.items)

C4_NeverAllWithConcrete ==
    /\ IsNormalized(brand_value)
    /\ IsNormalized(drivetrain_value)
    /\ brand_raw \in {PyNone, PyList(<<>>)} => brand_value = PyStr("ALL")
    /\ drivetrain_raw \in {PyNone, PyList(<<>>)} => drivetrain_value = PyStr("ALL")

\* a raw list that mixes 'ALL' with a brand has been reduced, and an empty raw
\* list of drivetrains has been reduced to 'ALL'
C4_Witness ==
    /\ brand_raw = PyList(<<"BrandB", "ALL">>)
    /\ brand_value = PyList(<<"BrandB">>)
    /\ drivetrain_raw = PyList(<<>>)
    /\ drivetrain_value = PyStr("ALL")

IsConcreteList(v) == v.kind = "list" /\ v.items # <<>> /\ "ALL" \notin Range(v.items)

\* the edit that adds value x to the active selection prev: the raw value is
\* the active values followed by x ('ALL' alone is the active value ['ALL'])
AddedTo(prev, x) ==
    PyList((IF prev.kind = "str" THEN <<prev.s>> ELSE prev.items) \o <<x>>)

\* C5 as claimed: adding a concrete value to 'ALL' drops 'ALL', and adding
\* 'ALL' to concrete values drops the concrete values and gives 'ALL'.
C5_BothDirections ==
    /\ \A v \in Range(all_brands) :
          (brand_prev = PyStr("ALL") /\ brand_raw = AddedTo(brand_prev, v))
              => brand_value = PyList(<<v>>)
    /\ (IsConcreteList(brand_prev) /\ brand_raw = AddedTo(brand_prev, "ALL"))
          => brand_value = PyStr("ALL")
    /\ \A v \in Range(all_drivetrains) :
          (drivetrain_prev = PyStr("ALL") /\ drivetrain_raw = AddedTo(drivetrain_prev, v))
              => drivetrain_value = PyList(<<v>>)
    /\ (IsConcreteList(drivetrain_prev) /\ drivetrain_raw = AddedTo(drivetrain_prev, "ALL"))
          => drivetrain_value = PyStr("ALL")

\* C5 as amended: adding a concrete value to 'ALL' drops 'ALL'; adding 'ALL'
\* to concrete values drops 'ALL' again and keeps the concrete values; the
\* value becomes 'ALL' only from a raw value of None, [] or ['ALL'].
C5_AllIsAlwaysDropped ==
    /\ \A v \in Range(all_brands) :
          (brand_prev = PyStr("ALL") /\ brand_raw = AddedTo(brand_prev, v))
              => brand_value = PyList(<<v>>)
    /\ (IsConcreteList(brand_prev) /\ brand_raw = AddedTo(brand_prev, "ALL"))
          => brand_value = brand_prev
    /\ brand_value = PyStr("ALL")
          <=> brand_raw \in {PyNone, PyStr("ALL"), PyList(<<>>), PyList(<<"ALL">>)}
    /\ \A v \in Range(all_drivetrains) :
          (drivetrain_prev = PyStr("ALL") /\ drivetrain_raw = AddedTo(drivetrain_prev, v))
              => drivetrain_value = PyList(<<v>>)
    /\ (IsConcreteList(drivetrain_prev) /\ drivetrain_raw = AddedTo(drivetrain_prev, "ALL"))
          => drivetrain_value = drivetrain_prev
    /\ drivetrain_value = PyStr("ALL")
          <=> drivetrain_raw \in {PyNone, PyStr("ALL"), PyList(<<>>), PyList(<<"ALL">>)}

\* a brand was added to 'ALL', and 'ALL' was added to the drivetrain ['AWD']
C5_Witness ==
    /\ brand_prev = PyStr("ALL")
    /\ brand_raw = PyList(<<"ALL", "BrandC">>)
    /\ brand_value = PyList(<<"BrandC">>)
    /\ drivetrain_prev = PyList(<<"AWD">>)
    /\ drivetrain_raw = PyList(<<"AWD", "ALL">>)
    /\ drivetrain_value = PyList(<<"AWD">>)

\* --- the legend -------------------------------------------------------

\* the (engine type, drivetrain) groups in the fixed legend order
LegendGroups ==
    << <<"NA", "RWD">>, <<"FI", "RWD">>, <<"NA", "AWD">>,
       <<"FI", "AWD">>, <<"NA", "FWD">>, <<"FI", "FWD">> >>

GroupOfRow(i) == IndexOf(LegendGroups, <<Row(i).EngineType, Row(i).Drivetrain>>)

\* the legend identity of a row: "<drivetrain> <engine type>"
GroupNameOfRow(i) == <<Row(i).Drivetrain, Row(i).EngineType>>

\* the positions of the data points (marker traces) in the emitted sequence
PointPositions == {t \in DOMAIN traces : traces[t].mode = "markers"}

\* C6: the points are emitted group by group in legend order and, within a
\* group, by ascending x-slot and then ascending time; every row of the
\* filtered set is emitted once, in its own group, so that an empty group
\* emits nothing; and of the points of a group exactly the first emitted one
\* carries the legend entry.
C6_LegendOrder ==
    (viz_called /\ Len(filtered_df) > 0) =>
        /\ {traces[t].row : t \in PointPositions} = KeptRows
        /\ Cardinality(PointPositions) = Len(filtered_df)
        /\ \A t \in PointPositions : traces[t].name = GroupNameOfRow(traces[t].row)
        /\ \A t, u \in PointPositions : t < u =>
              \/ GroupOfRow(traces[t].row) < GroupOfRow(traces[u].row)
              \/ /\ GroupOfRow(traces[t].row) = GroupOfRow(traces[u].row)
                 /\ \/ traces[t].x < traces[u].x
                    \/ traces[t].x = traces[u].x /\ traces[t].y <= traces[u].y
        /\ \A t \in PointPositions :
              traces[t].showlegend <=>
                  \A u \in PointPositions : traces[u].name = traces[t].name => t <= u
        /\ \A t \in DOMAIN traces : t \notin PointPositions => ~traces[t].showlegend

\* two groups are on the plot and one of them has two points on two slots
C6_Witness ==
    /\ viz_called
    /\ \E t, u, w \in PointPositions :
          /\ t < u
          /\ traces[t].name = traces[u].name
          /\ traces[t].x < traces[u].x
          /\ traces[t].y > traces[u].y
          /\ traces[w].name # traces[t].name

\* --- the y axis ------------------------------------------------------------

\* C7 as claimed: the ticks are the minimum time and the multiples of 0.5 s
\* from the minimum rounded up to the maximum time, strictly increasing, the
\* smallest is the minimum time and none is above the maximum time.
C7_TicksUpToMax ==
    (viz_called /\ Len(filtered_df) > 0) =>
        /\ Range(tick_values) =
              {KeptMinTime} \cup {g \in KeptMinTime..KeptMaxTime : g % 500 = 0}
        /\ StrictlyIncreasing(tick_values)
        /\ tick_values[1] = KeptMinTime
        /\ \A k \in DOMAIN tick_values : tick_values[k] <= KeptMaxTime

\* C7 as amended: the ticks are the minimum time and the multiples of 0.5 s
\* from the minimum rounded up to below the maximum time plus 0.5 s, strictly
\* increasing, the smallest is the minimum time; the largest is the maximum
\* time rounded up to a multiple of 0.5 s, less than 0.5 s above the maximum.
C7_TicksBelowMaxPlusHalf ==
    (viz_called /\ Len(filtered_df) > 0) =>
        /\ Range(tick_values) =
              {KeptMinTime} \cup {g \in KeptMinTime..(KeptMaxTime + 499) : g % 500 = 0}
        /\ StrictlyIncreasing(tick_values)
        /\ tick_values[1] = KeptMinTime
        /\ \A k \in DOMAIN tick_values : tick_values[k] < KeptMaxTime + 500
        /\ tick_values[Len(tick_values)] >= KeptMaxTime

\* minimum 58.2 s and maximum 61.2 s: the ticks run 58.2, 58.5, ..., 61.5
C7_Witness ==
    /\ viz_called
    /\ KeptRows # {}
    /\ KeptMinTime = 58200
    /\ KeptMaxTime = 61200
    /\ tick_values = <<58200, 58500, 59000, 59500, 60000, 60500, 61000, 61500>>

\* --- the summary -----------------------------------------------------------

\* C8: the summary reports the number of filtered rows, the number of distinct
\* brands among them and, when there is a row, the first row in Record Store
\* order among those with the minimum time; with no row both counts are zero
\* and no fastest vehicle is reported.
C8_Summary ==
    viz_called =>
        /\ total_vehicles = Cardinality(KeptRows)
        /\ total_brands = Cardinality(KeptBrands)
        /\ KeptRows # {} =>
              /\ fastest_idx \in KeptRows
              /\ Row(fastest_idx).Time_sec = KeptMinTime
              /\ \A j \in KeptRows : Row(j).Time_sec = KeptMinTime => fastest_idx <= j
        /\ KeptRows = {} =>
              /\ total_vehicles = 0
              /\ total_brands = 0
              /\ fastest_idx = NoRow

\* two filtered rows share the minimum time and the earlier one is reported
C8_Witness ==
    /\ viz_called
    /\ total_brands = 2
    /\ \E i, j \in KeptRows :
          /\ i < j
          /\ Row(i).Time_sec = KeptMinTime
          /\ Row(j).Time_sec = KeptMinTime
          /\ fastest_idx = i

\* --- the width -------------------------------------------------------------

\* the longest label "<Model> <ChassisCode>" of the filtered rows, in characters
MaxLabelLen == MaxOfSet({Len(Row(i).Model) + 1 + Len(Row(i).ChassisCode) : i \in KeptRows})

\* 100 px per brand, 500 px of padding, 0.08 * 200 = 16 px per label character
ContentWidth == Cardinality(KeptBrands) * 100 + 500 + MaxLabelLen * 16

\* C9: the plot width is within [900, 1600]; for a non-empty filtered set it
\* is 100 px per brand plus 500 px plus 0.08 * 200 px per character of the
\* longest label, clamped to that range; for an empty filtered set it is 900
\* with an empty brand order and a zero label width.
C9_Width ==
    viz_called =>
        /\ responsive_width >= 900
        /\ responsive_width <= 1600
        /\ KeptRows # {} =>
              responsive_width = Max(900, Min(1600, ContentWidth))
        /\ KeptRows = {} =>
              /\ responsive_width = 900
              /\ brand_order_simple = <<>>
              /\ max_brand_width = 0

\* a long label pushes the content width beyond 1600 and the width is 1600
C9_Witness ==
    /\ viz_called
    /\ KeptRows # {}
    /\ ContentWidth > 1600
    /\ responsive_width = 1600

\* --- the time codec --------------------------------------------------------

\* the text has the shape MM:SS.sss with a seconds part below 60
IsCanonicalTime(s) ==
    /\ Len(s) = 9
    /\ s[3] = ":" /\ s[6] = "."
    /\ \A i \in {1, 2, 4, 5, 7, 8, 9} : IsDigit(s[i])
    /\ DigitVal(s[4]) < 6

\* the number of milliseconds a canonical text denotes
MillisOf(s) ==
    (DigitVal(s[1]) * 10 + DigitVal(s[2])) * 60000
    + (DigitVal(s[4]) * 10 + DigitVal(s[5])) * 1000
    + DigitVal(s[7]) * 100 + DigitVal(s[8]) * 10 + DigitVal(s[9])

\* C10: a lap time written MM:SS.sss with seconds below 60 is parsed to
\* minutes * 60 + seconds, and formatting that number with three decimals
\* gives back the same text.
C10_RoundTrip ==
    (codec_pc = "formatted" /\ ~time_text.isna /\ IsCanonicalTime(time_text.chars)) =>
        /\ time_sec = MillisOf(time_text.chars)
        /\ time_duration = time_text.chars

\* "01:39.289" was parsed to 99.289 s and formatted back
C10_Witness ==
    /\ codec_pc = "formatted"
    /\ time_text = Text(ExampleText)
    /\ time_sec = 99289
    /\ time_duration = ExampleText

\* --- purity of update_visualization -----------------------------------------

C12_ReducerIdempotent ==
    /\ update_brand_dropdown(brand_value) = brand_value
    /\ update_drivetrain_dropdown(drivetrain_value) = drivetrain_value

\* the reducers changed both raw values, and what they returned is a fixed point
C12_Witness ==
    /\ brand_raw = PyList(<<"ALL", "BrandB">>)
    /\ brand_value = PyList(<<"BrandB">>)
    /\ update_brand_dropdown(brand_value) = brand_value
    /\ drivetrain_raw = PyNone
    /\ drivetrain_value = PyStr("ALL")
    /\ update_drivetrain_dropdown(drivetrain_value) = drivetrain_value

====
